---- MODULE Spec2Model ----
(***************************************************************************)
(* Model of services/search_engine.py: the SearchEngine singleton, its     *)
(* in-memory indexes, the snapshot files it writes under data/, and the    *)
(* engine boundary operations (initialize, add_document,                   *)
(* add_documents_batch, search, search_questions_only,                     *)
(* search_answers_only, get_document_count, clear_index, rebuild_index).   *)
(*                                                                         *)
(* Conventions.                                                            *)
(*  - A Python Optional is a sequence of length <= 1: <<>> is None and     *)
(*    <<x>> is the value x.  A file is the same: <<>> is "no such file".   *)
(*  - A Python dict is a sequence of <<key, value>> pairs in insertion     *)
(*    order (dicts iterate in insertion order and list.sort is stable).    *)
(*  - A text is a sequence of words.  A vector is the record the embedder  *)
(*    produced it from; inner products are given by Cos.                   *)
(*  - Scores are integers in units of 1/Unit.                              *)
(***************************************************************************)
EXTENDS Integers, Sequences, FiniteSets, TLC

\* ------------------------------------------------------------------ bounds
MaxDocs == 2
MaxBatch == 2
MaxStore == 4
MaxFaults == 1

\* ------------------------------------------------------- generic helpers
None == <<>>
Some(x) == <<x>>
IsNone(o) == o = <<>>

Min(a, b) == IF a <= b THEN a ELSE b
Max(a, b) == IF a >= b THEN a ELSE b

\* ------------------------------------------------------------- tokenizer
\* text.lower() and re.sub(r'[^\w\s]', ' ', text) on one word.
NormWord(w) ==
    CASE w = "Zakat" -> "zakat"
      [] w = "wudu?" -> "wudu"
      [] OTHER -> w

\* len(t) of a normalised word.
WordLen(w) == IF w = "a" THEN 1 ELSE 5

LongEnough(w) == WordLen(w) > 1

\* SearchEngine._tokenize
Tokenize(text) == SelectSeq([i \in 1..Len(text) |-> NormWord(text[i])], LongEnough)

\* ------------------------------------------------------------- documents
PyNone == <<"None">>
PyInt(n) == <<"int", n>>

TZakat == <<"Zakat">>
TWudu == <<"wudu?">>
TBoth == <<"zakat", "wudu">>
TMany == <<"zakat", "zakat", "wudu">>
TShort == <<"a">>
TShortZakat == <<"a", "zakat">>

\* dicts handed to add_document / add_documents_batch / rebuild_index
DocA == [post_id |-> PyInt(1), post_number |-> PyInt(1), question_text |-> TZakat,
         answer_text |-> TMany, message_id |-> PyInt(1)]
DocB == [question_text |-> TWudu, answer_text |-> TBoth, message_id |-> PyInt(2),
         date |-> PyInt(7)]
DocC == [post_id |-> PyInt(3), post_number |-> PyInt(3), question_text |-> TShort,
         answer_text |-> TWudu, message_id |-> PyInt(3)]
\* two documents with the same one-letter answer; the question of the second
\* shares a word with it
DocD == [post_id |-> PyInt(4), post_number |-> PyInt(4), question_text |-> TZakat,
         answer_text |-> TShort, message_id |-> PyInt(4)]
DocE == [post_id |-> PyInt(5), post_number |-> PyInt(5), question_text |-> TShortZakat,
         answer_text |-> TShort, message_id |-> PyInt(5)]
\* the documents of the life-cycle runs, and those of the stores that are queried
InDocs == {DocA, DocB}
SearchDocs == {DocA, DocB, DocC}
SameAnswerDocs == {DocD, DocE}

\* doc.get(key)
DictGet(d, key) == IF key \in DOMAIN d THEN d[key] ELSE PyNone

\* the dict appended to self.documents
StoredDoc(d) ==
    [post_id |-> DictGet(d, "post_id"),
     post_number |-> DictGet(d, "post_number"),
     question_text |-> d.question_text,
     answer_text |-> d.answer_text,
     message_id |-> DictGet(d, "message_id")]

RECURSIVE SeqsUpTo(_, _)
SeqsUpTo(S, n) ==
    IF n = 0 THEN {<<>>}
    ELSE LET shorter == SeqsUpTo(S, n - 1)
         IN shorter \cup {Append(s, x) : s \in shorter, x \in S}

Batches == SeqsUpTo(InDocs, MaxBatch)

\* -------------------------------------------------------------- embedder
\* SentenceTransformer.encode on one text: deterministic for identical input.
Embed(text) == [field |-> "text", q |-> text, a |-> <<>>]

\* _create_weighted_embeddings on one row: normalize(0.6*q + 0.4*a)
WeightedEmbedding(qe, ae) == [field |-> "combined", q |-> qe.q, a |-> ae.q]

QuestionText(d) == d.question_text
AnswerText(d) == d.answer_text
EncodeQuestion(d) == Embed(d.question_text)
EncodeAnswer(d) == Embed(d.answer_text)
EncodeCombined(d) == WeightedEmbedding(Embed(d.question_text), Embed(d.answer_text))

\* ------------------------------------------------------ snapshot encoding
\* json.dump / json.load of one value of a stored document
JsonEncodeValue(v) == IF v[1] = "None" THEN <<"null">> ELSE <<"number", v[2]>>
JsonDecodeValue(j) == IF j[1] = "null" THEN PyNone ELSE PyInt(j[2])

JsonEncodeDoc(d) ==
    [post_id |-> JsonEncodeValue(d.post_id),
     post_number |-> JsonEncodeValue(d.post_number),
     question_text |-> <<"string", d.question_text>>,
     answer_text |-> <<"string", d.answer_text>>,
     message_id |-> JsonEncodeValue(d.message_id)]

JsonDecodeDoc(j) ==
    [post_id |-> JsonDecodeValue(j.post_id),
     post_number |-> JsonDecodeValue(j.post_number),
     question_text |-> j.question_text[2],
     answer_text |-> j.answer_text[2],
     message_id |-> JsonDecodeValue(j.message_id)]

\* json.dump(self.documents, f) and json.load(f)
JsonDump(documents) == [i \in 1..Len(documents) |-> JsonEncodeDoc(documents[i])]
JsonLoad(file) == [i \in 1..Len(file) |-> JsonDecodeDoc(file[i])]

\* ------------------------------------------------------------------ faults
\* The place where a call raises: the embedder, one of the three BM25Okapi
\* constructors, or one of the five file writes of _save_all_indexes.
Faults ==
    {"none", "encode", "bm25_questions", "bm25_answers", "bm25",
     "write1", "write2", "write3", "write4", "write5"}

BmFaults == {"bm25_questions", "bm25_answers", "bm25"}
WriteFaults == {"write1", "write2", "write3", "write4", "write5"}

\* number of files _save_all_indexes has written when it raises
WritesDone(fault) ==
    CASE fault = "write1" -> 0
      [] fault = "write2" -> 1
      [] fault = "write3" -> 2
      [] fault = "write4" -> 3
      [] fault = "write5" -> 4
      [] OTHER -> 5

\* --------------------------------------------------------------- the disk
EmptyDisk ==
    [questions |-> None, answers |-> None, combined |-> None,
     legacy |-> None, documents |-> None]

\* a data directory left by the single-index version of the bot
LegacyDisk ==
    [questions |-> None, answers |-> None, combined |-> None,
     legacy |-> Some(<<Embed(TZakat \o TMany)>>),
     documents |-> Some(JsonDump(<<StoredDoc(DocA)>>))]

\* a legacy data directory with an empty document list
LegacyEmptyDisk ==
    [questions |-> None, answers |-> None, combined |-> None,
     legacy |-> Some(<<>>), documents |-> Some(JsonDump(<<>>))]

InitDisks == {EmptyDisk, LegacyDisk, LegacyEmptyDisk}

\* SearchEngine._has_multi_index
HasMultiIndex(d) ==
    /\ ~IsNone(d.questions)
    /\ ~IsNone(d.answers)
    /\ ~IsNone(d.combined)
    /\ ~IsNone(d.documents)

\* the elif of initialize: legacy index file and documents file exist
HasLegacyIndex(d) == ~IsNone(d.legacy) /\ ~IsNone(d.documents)

\* SearchEngine._save_all_indexes, stopped by fault after WritesDone(fault) writes
SaveAllIndexes(e, d, fault) ==
    LET n == WritesDone(fault)
    IN [questions |-> IF n >= 1 THEN e.question_index ELSE d.questions,
        answers |-> IF n >= 2 THEN e.answer_index ELSE d.answers,
        combined |-> IF n >= 3 THEN e.combined_index ELSE d.combined,
        legacy |-> IF n >= 4 THEN e.combined_index ELSE d.legacy,
        documents |-> IF n >= 5 THEN Some(JsonDump(e.documents)) ELSE d.documents]

\* ------------------------------------------------------------- the engine
\* SearchEngine.__init__ (self.index is always the same object as
\* self.combined_index once either is set, so it has no field of its own)
NewEngine ==
    [model |-> None,
     question_index |-> None, answer_index |-> None, combined_index |-> None,
     bm25_questions |-> None, bm25_answers |-> None, bm25 |-> None,
     tokenized_corpus |-> <<>>, documents |-> <<>>,
     initialized |-> FALSE]

\* SearchEngine._create_empty_indexes
CreateEmptyIndexes(e) ==
    [e EXCEPT !.question_index = Some(<<>>), !.answer_index = Some(<<>>),
              !.combined_index = Some(<<>>), !.documents = <<>>]

TokenizeQuestion(d) == Tokenize(d.question_text)
TokenizeAnswer(d) == Tokenize(d.answer_text)
TokenizeCombined(d) == Tokenize(d.question_text \o d.answer_text)

\* SearchEngine._build_bm25_indexes; a BM25Okapi object is the corpus it was
\* built from.  fault names the constructor that raises, if any.
BuildBm25Indexes(e, fault) ==
    IF e.documents = <<>>
    THEN [e EXCEPT !.bm25_questions = None, !.bm25_answers = None,
                   !.bm25 = None, !.tokenized_corpus = <<>>]
    ELSE LET tq == [i \in 1..Len(e.documents) |-> TokenizeQuestion(e.documents[i])]
             ta == [i \in 1..Len(e.documents) |-> TokenizeAnswer(e.documents[i])]
             tc == [i \in 1..Len(e.documents) |-> TokenizeCombined(e.documents[i])]
             e1 == [e EXCEPT !.tokenized_corpus = tc]
             e2 == [e1 EXCEPT !.bm25_questions = Some(tq)]
             e3 == [e2 EXCEPT !.bm25_answers = Some(ta)]
             e4 == [e3 EXCEPT !.bm25 = Some(tc)]
         IN CASE fault = "bm25_questions" -> e1
              [] fault = "bm25_answers" -> e2
              [] fault = "bm25" -> e3
              [] OTHER -> e4

\* does _build_bm25_indexes raise on this engine under this fault
Bm25Raises(e, fault) == e.documents # <<>> /\ fault \in BmFaults

\* what a call leaves behind: the engine, the disk, whether it returned
\* normally, and the value returned or the error raised
Outcome(e, d, ok, ret) == [engine |-> e, disk |-> d, ok |-> ok, ret |-> ret]

NotInitialized == <<"RuntimeError", "not initialized">>
Raised(fault) == <<"Exception", fault>>

\* --------------------------------------------------- engine operations
\* a variant that forgets the combined index
RECURSIVE AddToIndexesButCombined(_, _)
AddToIndexesButCombined(e, docs) ==
    IF docs = <<>> THEN e
    ELSE AddToIndexesButCombined(
           [e EXCEPT !.question_index = Some(Append(@[1], EncodeQuestion(Head(docs)))),
                     !.answer_index = Some(Append(@[1], EncodeAnswer(Head(docs))))],
           Tail(docs))

\* index.add(embeddings) on the three FAISS indexes, lines 295-297 / 337-339
RECURSIVE AddToIndexes(_, _)
AddToIndexes(e, docs) ==
    IF docs = <<>> THEN e
    ELSE AddToIndexes(
           [e EXCEPT !.question_index = Some(Append(@[1], EncodeQuestion(Head(docs)))),
                     !.answer_index = Some(Append(@[1], EncodeAnswer(Head(docs)))),
                     !.combined_index = Some(Append(@[1], EncodeCombined(Head(docs))))],
           Tail(docs))

\* a variant that stores the new documents in front of the old ones
PrependDocuments(e, docs) ==
    [e EXCEPT !.documents = [i \in 1..Len(docs) |-> StoredDoc(docs[i])] \o @]

\* self.documents.append({...}) for every document of the call
AppendDocuments(e, docs) ==
    [e EXCEPT !.documents = @ \o [i \in 1..Len(docs) |-> StoredDoc(docs[i])]]

\* a variant that adds each embedding to its index as soon as it is computed,
\* the question embeddings before the answers are encoded
IngestIndexingAsEncoded(e, d, docs, fault, ret) ==
    IF fault = "encode"
    THEN Outcome([e EXCEPT !.question_index =
                      Some(@[1] \o [i \in 1..Len(docs) |-> EncodeQuestion(docs[i])])],
                 d, FALSE, Raised(fault))
    ELSE LET e1 == AddToIndexes(e, docs)
             e2 == AppendDocuments(e1, docs)
             e3 == BuildBm25Indexes(e2, fault)
         IN IF Bm25Raises(e2, fault) THEN Outcome(e3, d, FALSE, Raised(fault))
            ELSE IF fault \in WriteFaults
                 THEN Outcome(e3, SaveAllIndexes(e3, d, fault), FALSE, Raised(fault))
                 ELSE Outcome(e3, SaveAllIndexes(e3, d, "none"), TRUE, ret)

\* the common tail of add_document and add_documents_batch: embed, add to
\* the vector indexes, store the documents, rebuild BM25, save
Ingest(e, d, docs, fault, ret) ==
    IF fault = "encode" THEN Outcome(e, d, FALSE, Raised(fault))
    ELSE LET e1 == AddToIndexes(e, docs)
             e2 == AppendDocuments(e1, docs)
             e3 == BuildBm25Indexes(e2, fault)
         IN IF Bm25Raises(e2, fault) THEN Outcome(e3, d, FALSE, Raised(fault))
            ELSE IF fault \in WriteFaults
                 THEN Outcome(e3, SaveAllIndexes(e3, d, fault), FALSE, Raised(fault))
                 ELSE Outcome(e3, SaveAllIndexes(e3, d, "none"), TRUE, ret)

\* SearchEngine.add_document
AddDocument(e, d, doc, fault) ==
    IF ~e.initialized THEN Outcome(e, d, FALSE, NotInitialized)
    ELSE Ingest(e, d, <<doc>>, fault, PyInt(Len(e.documents)))

\* a variant without the early return of lines 321-322
AddDocumentsBatchWithoutEmptyCheck(e, d, docs, fault) ==
    IF ~e.initialized THEN Outcome(e, d, FALSE, NotInitialized)
    ELSE Ingest(e, d, docs, fault, PyNone)

\* SearchEngine.add_documents_batch
AddDocumentsBatch(e, d, docs, fault) ==
    IF ~e.initialized THEN Outcome(e, d, FALSE, NotInitialized)
    ELSE IF docs = <<>> THEN Outcome(e, d, TRUE, PyNone)
    ELSE Ingest(e, d, docs, fault, PyNone)

\* SearchEngine.get_document_count
GetDocumentCount(e, d) == Outcome(e, d, TRUE, PyInt(Len(e.documents)))

\* SearchEngine.clear_index
ClearIndex(e, d, fault) ==
    LET e1 == [CreateEmptyIndexes(e) EXCEPT
                  !.bm25_questions = None, !.bm25_answers = None,
                  !.bm25 = None, !.tokenized_corpus = <<>>]
    IN IF fault \in WriteFaults
       THEN Outcome(e1, SaveAllIndexes(e1, d, fault), FALSE, Raised(fault))
       ELSE Outcome(e1, SaveAllIndexes(e1, d, "none"), TRUE, PyNone)

\* a variant that does not reset the engine first
RebuildIndexKeepingOld(e, d, docs, fault) ==
    IF docs # <<>> THEN AddDocumentsBatch(e, d, docs, fault)
    ELSE Outcome(e, d, TRUE, PyNone)

\* SearchEngine.rebuild_index
RebuildIndex(e, d, docs, fault) ==
    LET e1 == CreateEmptyIndexes([e EXCEPT !.documents = <<>>])
    IN IF docs # <<>> THEN AddDocumentsBatch(e1, d, docs, fault)
       ELSE Outcome(e1, d, TRUE, PyNone)

\* SearchEngine._load_multi_index
LoadMultiIndex(e, d) ==
    [e EXCEPT !.question_index = d.questions, !.answer_index = d.answers,
              !.combined_index = d.combined, !.documents = JsonLoad(d.documents[1])]

\* SearchEngine._load_legacy_index
LoadLegacyIndex(e, d) ==
    [e EXCEPT !.combined_index = d.legacy, !.documents = JsonLoad(d.documents[1])]

\* a variant that keeps the combined index of the legacy file
BuildMultiIndexKeepingLegacy(e, d, fault) ==
    IF e.documents = <<>> THEN Outcome(CreateEmptyIndexes(e), d, TRUE, PyNone)
    ELSE LET e1 == [e EXCEPT !.question_index = Some(<<>>), !.answer_index = Some(<<>>)]
             e2 == AddToIndexesButCombined(e1, e.documents)
         IN IF fault = "encode" THEN Outcome(e1, d, FALSE, Raised(fault))
            ELSE IF fault \in WriteFaults
                 THEN Outcome(e2, SaveAllIndexes(e2, d, fault), FALSE, Raised(fault))
                 ELSE Outcome(e2, SaveAllIndexes(e2, d, "none"), TRUE, PyNone)

\* SearchEngine._build_multi_index
BuildMultiIndex(e, d, fault) ==
    IF e.documents = <<>> THEN Outcome(CreateEmptyIndexes(e), d, TRUE, PyNone)
    ELSE LET e1 == [e EXCEPT !.question_index = Some(<<>>), !.answer_index = Some(<<>>),
                             !.combined_index = Some(<<>>)]
             e2 == AddToIndexes(e1, e.documents)
         IN IF fault = "encode" THEN Outcome(e1, d, FALSE, Raised(fault))
            ELSE IF fault \in WriteFaults
                 THEN Outcome(e2, SaveAllIndexes(e2, d, fault), FALSE, Raised(fault))
                 ELSE Outcome(e2, SaveAllIndexes(e2, d, "none"), TRUE, PyNone)

\* SearchEngine.initialize
Initialize(e, d, fault) ==
    IF e.initialized THEN Outcome(e, d, TRUE, PyNone)
    ELSE LET e0 == [e EXCEPT !.model = Some("rubert-tiny-turbo")]
             loaded ==
                 IF HasMultiIndex(d) THEN Outcome(LoadMultiIndex(e0, d), d, TRUE, PyNone)
                 ELSE IF HasLegacyIndex(d)
                      THEN BuildMultiIndex(LoadLegacyIndex(e0, d), d, fault)
                      ELSE Outcome(CreateEmptyIndexes(e0), d, TRUE, PyNone)
             e1 == BuildBm25Indexes(loaded.engine, fault)
         IN IF ~loaded.ok THEN loaded
            ELSE IF Bm25Raises(loaded.engine, fault)
                 THEN Outcome(e1, loaded.disk, FALSE, Raised(fault))
                 ELSE Outcome([e1 EXCEPT !.initialized = TRUE], loaded.disk, TRUE, PyNone)

\* ------------------------------------------------------------- scoring
\* scores are integers in units of 1/Unit; 1.0 is Unit
Unit == 20 * 60
\* BM25_THRESHOLD = 0.5
BM25_THRESHOLD == Unit \div 2
\* k of _reciprocal_rank_fusion
RrfK == 60

RECURSIVE Gcd(_, _)
Gcd(a, b) == IF b = 0 THEN a ELSE Gcd(b, a % b)
Lcm(a, b) == (a \div Gcd(a, b)) * b

RECURSIVE LcmRange(_, _)
LcmRange(lo, hi) == IF lo > hi THEN 1 ELSE Lcm(lo, LcmRange(lo + 1, hi))

\* fused scores are integers in units of 1/(10 * RrfScale): every
\* weight / (k + rank + 1) with rank below the largest store is then an integer
RrfScale == LcmRange(RrfK + 1, RrfK + Max(MaxDocs, MaxStore))

WordSet(text) == {NormWord(text[i]) : i \in DOMAIN text}

\* inner product of the embeddings of two texts, in units of 1/60
CosText(x, y) ==
    LET a == WordSet(x)
        b == WordSet(y)
    IN IF a = {} \/ b = {} THEN 0
       ELSE IF a \cap b = {} THEN -12
       ELSE (60 * Cardinality(a \cap b)) \div Cardinality(a \cup b)

\* inner product of the query embedding with a stored vector, in units of 1/Unit
Cos(query, vec) ==
    IF vec.field = "text" THEN 20 * CosText(query, vec.q)
    ELSE 2 * (6 * CosText(query, vec.q) + 4 * CosText(query, vec.a))

\* ---------------------------------------------------------------- dicts
DictKeys(dct) == {dct[i][1] : i \in DOMAIN dct}
DictHas(dct, k) == \E i \in DOMAIN dct : dct[i][1] = k
\* dct.get(k, default)
DictValue(dct, k, default) ==
    IF DictHas(dct, k) THEN dct[CHOOSE i \in DOMAIN dct : dct[i][1] = k][2]
    ELSE default
\* dct[k] = v
DictPut(dct, k, v) ==
    IF DictHas(dct, k)
    THEN [i \in DOMAIN dct |-> IF dct[i][1] = k THEN <<k, v>> ELSE dct[i]]
    ELSE Append(dct, <<k, v>>)

Take(s, n) == SubSeq(s, 1, Min(n, Len(s)))

RECURSIVE Reverse(_)
Reverse(s) == IF s = <<>> THEN <<>> ELSE Append(Reverse(Tail(s)), Head(s))

\* place x behind every element whose score (component c) is >= its own
RECURSIVE InsertDesc(_, _, _)
InsertDesc(x, s, c) ==
    IF s = <<>> THEN <<x>>
    ELSE IF Head(s)[c] >= x[c] THEN <<Head(s)>> \o InsertDesc(x, Tail(s), c)
    ELSE <<x>> \o s

\* sorted(items, key=lambda x: x[c], reverse=True): stable, descending
RECURSIVE SortDesc(_, _)
SortDesc(s, c) ==
    IF s = <<>> THEN <<>>
    ELSE InsertDesc(s[Len(s)], SortDesc(SubSeq(s, 1, Len(s) - 1), c), c)

\* place x behind every element whose score is <= its own
RECURSIVE InsertAsc(_, _, _)
InsertAsc(x, s, c) ==
    IF s = <<>> THEN <<x>>
    ELSE IF Head(s)[c] <= x[c] THEN <<Head(s)>> \o InsertAsc(x, Tail(s), c)
    ELSE <<x>> \o s

\* np.argsort(scores): ascending, equal scores in index order
RECURSIVE SortAsc(_, _)
SortAsc(s, c) ==
    IF s = <<>> THEN <<>>
    ELSE InsertAsc(s[Len(s)], SortAsc(SubSeq(s, 1, Len(s) - 1), c), c)

\* --------------------------------------------------------- vector search
\* index.search(query_embedding, k): the k best inner products, best first,
\* equal scores by lower ordinal
FaissSearch(vectors, query, k) ==
    Take(SortDesc([i \in DOMAIN vectors |-> <<i - 1, Cos(query, vectors[i])>>], 2), k)

\* SearchEngine._semantic_search_index
SemanticSearchIndex(query, index, top_k) ==
    FaissSearch(index[1], query, Min(top_k * 3, Len(index[1])))

\* SearchEngine._semantic_search
SemanticSearch(e, query, top_k) == SemanticSearchIndex(query, e.combined_index, top_k)

\* all_results[idx] = max(all_results.get(idx, 0), score * weight) for every
\* item of results; weight in twentieths
RECURSIVE MaxMergeWeighted(_, _, _)
MaxMergeWeighted(all, results, weight) ==
    IF results = <<>> THEN all
    ELSE LET idx == Head(results)[1]
             score == (Head(results)[2] * weight) \div 20
         IN MaxMergeWeighted(DictPut(all, idx, Max(DictValue(all, idx, 0), score)),
                             Tail(results), weight)

\* a variant that leaves the answer index out
MultiVectorSearchWithoutAnswers(e, query, top_k) ==
    LET question_results == SemanticSearchIndex(query, e.question_index, top_k)
        combined_results == SemanticSearchIndex(query, e.combined_index, top_k)
    IN MaxMergeWeighted(MaxMergeWeighted(<<>>, question_results, 20),
                        combined_results, 19)

\* a variant that gives the three indexes the same weight
MultiVectorSearchWithEqualWeights(e, query, top_k) ==
    LET question_results == SemanticSearchIndex(query, e.question_index, top_k)
        answer_results == SemanticSearchIndex(query, e.answer_index, top_k)
        combined_results == SemanticSearchIndex(query, e.combined_index, top_k)
    IN MaxMergeWeighted(
         MaxMergeWeighted(MaxMergeWeighted(<<>>, question_results, 20),
                          answer_results, 20),
         combined_results, 20)

\* SearchEngine._multi_vector_search
MultiVectorSearch(e, query, top_k) ==
    LET question_results == SemanticSearchIndex(query, e.question_index, top_k)
        answer_results == SemanticSearchIndex(query, e.answer_index, top_k)
        combined_results == SemanticSearchIndex(query, e.combined_index, top_k)
    IN MaxMergeWeighted(
         MaxMergeWeighted(MaxMergeWeighted(<<>>, question_results, 20),
                          answer_results, 18),
         combined_results, 19)

\* -------------------------------------------------------- lexical search
Occurrences(tok, doc) == Cardinality({i \in DOMAIN doc : doc[i] = tok})

RECURSIVE SumOccurrences(_, _)
SumOccurrences(tokens, doc) ==
    IF tokens = <<>> THEN 0
    ELSE Occurrences(Head(tokens), doc) + SumOccurrences(Tail(tokens), doc)

\* bm25_index.get_scores(tokens): one raw score per document of the corpus
\* the index was built from (term-frequency stand-in for the Okapi formula)
Bm25GetScores(corpus, tokens) ==
    [i \in DOMAIN corpus |-> <<i - 1, SumOccurrences(tokens, corpus[i])>>]

RECURSIVE MaxScore(_)
MaxScore(scores) ==
    IF scores = <<>> THEN 0 ELSE Max(Head(scores)[2], MaxScore(Tail(scores)))

IsPositive(item) == item[2] > 0

\* a variant that returns the candidates without a matching term as well
Bm25SearchIndexKeepingZeros(query, bm25_index, top_k) ==
    IF IsNone(bm25_index) THEN <<>>
    ELSE LET tokens == Tokenize(query)
             scores == Bm25GetScores(bm25_index[1], tokens)
             top_indices == Take(Reverse(SortAsc(scores, 2)), top_k * 3)
             max_score == IF MaxScore(scores) > 0 THEN MaxScore(scores) ELSE 1
         IN IF tokens = <<>> THEN <<>>
            ELSE [i \in DOMAIN top_indices |->
                    <<top_indices[i][1], (Unit * top_indices[i][2]) \div max_score>>]

\* SearchEngine._bm25_search_index
Bm25SearchIndex(query, bm25_index, top_k) ==
    IF IsNone(bm25_index) THEN <<>>
    ELSE LET tokens == Tokenize(query)
             scores == Bm25GetScores(bm25_index[1], tokens)
             top_indices == Take(Reverse(SortAsc(scores, 2)), top_k * 3)
             max_score == IF MaxScore(scores) > 0 THEN MaxScore(scores) ELSE 1
             positive == SelectSeq(top_indices, IsPositive)
         IN IF tokens = <<>> THEN <<>>
            ELSE [i \in DOMAIN positive |->
                    <<positive[i][1], (Unit * positive[i][2]) \div max_score>>]

\* SearchEngine._bm25_search
Bm25Search(e, query, top_k) == Bm25SearchIndex(query, e.bm25, top_k)

\* SearchEngine._multi_bm25_search
MultiBm25Search(e, query, top_k) ==
    MaxMergeWeighted(
      MaxMergeWeighted(<<>>, Bm25SearchIndex(query, e.bm25_questions, top_k), 20),
      Bm25SearchIndex(query, e.bm25_answers, top_k), 20)

\* ---------------------------------------------------------------- fusion
\* one result set of _reciprocal_rank_fusion: rrf_scores[idx] += weight/(k+rank+1)
\* for the items of ranked from position rank on; weight in tenths
RECURSIVE RrfAccumulate(_, _, _, _)
RrfAccumulate(rrf_scores, ranked, rank, weight) ==
    IF ranked = <<>> THEN rrf_scores
    ELSE LET idx == Head(ranked)[1]
             gain == weight * (RrfScale \div (RrfK + rank + 1))
         IN RrfAccumulate(DictPut(rrf_scores, idx, DictValue(rrf_scores, idx, 0) + gain),
                          Tail(ranked), rank + 1, weight)

\* a variant that ranks each set in the order it arrives in
ReciprocalRankFusionWithoutSorting(first, second, w1, w2) ==
    RrfAccumulate(RrfAccumulate(<<>>, first, 0, w1), second, 0, w2)

\* SearchEngine._reciprocal_rank_fusion on two result sets
ReciprocalRankFusion(first, second, w1, w2) ==
    RrfAccumulate(RrfAccumulate(<<>>, SortDesc(first, 2), 0, w1),
                  SortDesc(second, 2), 0, w2)

\* ---------------------------------------------------------------- search
\* services.synonyms.expand_query: the original query first, then its variants
ExpandQuery(query) ==
    LET substituted == [i \in DOMAIN query |->
                          IF query[i] = "alms" THEN "zakat" ELSE query[i]]
    IN IF substituted = query THEN <<query>> ELSE <<query, substituted>>

\* a variant in which the later variant always wins
RECURSIVE MergeLast(_, _)
MergeLast(merged, results) ==
    IF results = <<>> THEN merged
    ELSE MergeLast(DictPut(merged, Head(results)[1], Head(results)[2]), Tail(results))

\* for idx, score in results.items():
\*     if idx not in merged or merged[idx] < score: merged[idx] = score
RECURSIVE MergeBest(_, _)
MergeBest(merged, results) ==
    IF results = <<>> THEN merged
    ELSE LET idx == Head(results)[1]
             score == Head(results)[2]
         IN MergeBest(IF ~DictHas(merged, idx) \/ DictValue(merged, idx, 0) < score
                      THEN DictPut(merged, idx, score) ELSE merged,
                      Tail(results))

\* lines 507-517 of search: the best semantic score per ordinal over the queries
RECURSIVE CollectSemantic(_, _, _, _, _)
CollectSemantic(e, queries, top_k, use_multi_vector, all_semantic) ==
    IF queries = <<>> THEN all_semantic
    ELSE LET results == IF use_multi_vector
                        THEN MultiVectorSearch(e, Head(queries), top_k)
                        ELSE SemanticSearch(e, Head(queries), top_k)
         IN CollectSemantic(e, Tail(queries), top_k, use_multi_vector,
                            MergeBest(all_semantic, results))

\* a variant that asks the lexical indexes for the last variant only
CollectBm25OfLastVariant(e, queries, top_k, use_multi_vector, bm25_results) ==
    LET additional == IF use_multi_vector
                      THEN MultiBm25Search(e, queries[Len(queries)], top_k)
                      ELSE Bm25Search(e, queries[Len(queries)], top_k)
    IN MergeBest(bm25_results, additional)

\* lines 519-531 of search: BM25 on the original query, then on the variants
RECURSIVE CollectBm25(_, _, _, _, _)
CollectBm25(e, queries, top_k, use_multi_vector, bm25_results) ==
    IF queries = <<>> THEN bm25_results
    ELSE LET additional == IF use_multi_vector
                           THEN MultiBm25Search(e, Head(queries), top_k)
                           ELSE Bm25Search(e, Head(queries), top_k)
         IN CollectBm25(e, Tail(queries), top_k, use_multi_vector,
                        MergeBest(bm25_results, additional))

\* a variant whose lexical threshold follows the caller's threshold
KeepWithScaledBm25Threshold(semantic_score, bm25_score, threshold) ==
    semantic_score >= threshold \/ bm25_score >= threshold

\* the inclusion rule of the three searches, lines 546-551 / 579 / 603
Keep(semantic_score, bm25_score, threshold) ==
    semantic_score >= threshold \/ bm25_score >= BM25_THRESHOLD

\* a variant that shows the semantic score alone
DisplayScoreSemanticOnly(semantic_score, bm25_score) == semantic_score

\* display_score = max(semantic_score, bm25_score)
DisplayScore(semantic_score, bm25_score) == Max(semantic_score, bm25_score)

\* the filter loop: (idx, rrf_score, display_score) of every kept item of combined
FilterResults(combined, semantic, bm25, threshold) ==
    LET kept(item) == Keep(DictValue(semantic, item[1], 0),
                           DictValue(bm25, item[1], 0), threshold)
        chosen == SelectSeq(combined, kept)
    IN [i \in DOMAIN chosen |->
          <<chosen[i][1], chosen[i][2],
            DisplayScore(DictValue(semantic, chosen[i][1], 0),
                         DictValue(bm25, chosen[i][1], 0))>>]

\* what a search computed on its way: the two score maps, the fused map,
\* the kept items and the items returned
Trace(semantic, bm25, combined, filtered, top) ==
    [semantic |-> semantic, bm25 |-> bm25, combined |-> combined,
     filtered |-> filtered, top |-> top]
NoTrace == Trace(<<>>, <<>>, <<>>, <<>>, <<>>)

SearchOutcome(ok, ret, trace) == [ok |-> ok, ret |-> ret, trace |-> trace]

\* a variant that cuts at top_k without sorting
MaterializeUnsorted(e, semantic, bm25, combined, threshold, top_k) ==
    LET filtered == FilterResults(combined, semantic, bm25, threshold)
        top == Take(filtered, top_k)
        trace == Trace(semantic, bm25, combined, filtered, top)
    IN IF \E i \in DOMAIN top : top[i][1] >= Len(e.documents)
       THEN SearchOutcome(FALSE, <<"IndexError">>, trace)
       ELSE SearchOutcome(TRUE,
              [i \in DOMAIN top |-> <<e.documents[top[i][1] + 1], top[i][3]>>], trace)

\* sort by fused score, cut at top_k, look the documents up
Materialize(e, semantic, bm25, combined, threshold, top_k) ==
    LET filtered == SortDesc(FilterResults(combined, semantic, bm25, threshold), 2)
        top == Take(filtered, top_k)
        trace == Trace(semantic, bm25, combined, filtered, top)
    IN IF \E i \in DOMAIN top : top[i][1] >= Len(e.documents)
       THEN SearchOutcome(FALSE, <<"IndexError">>, trace)
       ELSE SearchOutcome(TRUE,
              [i \in DOMAIN top |-> <<e.documents[top[i][1] + 1], top[i][3]>>], trace)

\* faults of a query: the embedder raises, or index.search is called with
\* k = 0 by a FAISS build that asserts k > 0
SearchFaults == {"none", "encode", "faiss_k0"}

\* a variant that fuses with the default weights of _reciprocal_rank_fusion
SearchWithDefaultWeights(e, query, top_k, threshold, use_synonyms, use_multi_vector, fault) ==
    IF ~e.initialized THEN SearchOutcome(FALSE, NotInitialized, NoTrace)
    ELSE IF Len(e.combined_index[1]) = 0 THEN SearchOutcome(TRUE, <<>>, NoTrace)
    ELSE IF fault = "encode" THEN SearchOutcome(FALSE, Raised(fault), NoTrace)
    ELSE IF /\ fault = "faiss_k0"
            /\ use_multi_vector
            /\ (Len(e.question_index[1]) = 0 \/ Len(e.answer_index[1]) = 0)
         THEN SearchOutcome(FALSE, <<"AssertionError">>, NoTrace)
    ELSE LET queries == IF use_synonyms THEN ExpandQuery(query) ELSE <<query>>
             all_semantic == CollectSemantic(e, queries, top_k, use_multi_vector, <<>>)
             bm25_results ==
                 CollectBm25(e, IF use_synonyms THEN queries ELSE <<query>>,
                             top_k, use_multi_vector, <<>>)
             combined_scores ==
                 IF bm25_results # <<>>
                 THEN ReciprocalRankFusion(all_semantic, bm25_results, 10, 10)
                 ELSE all_semantic
         IN Materialize(e, all_semantic, bm25_results, combined_scores, threshold, top_k)

\* SearchEngine.search
Search(e, query, top_k, threshold, use_synonyms, use_multi_vector, fault) ==
    IF ~e.initialized THEN SearchOutcome(FALSE, NotInitialized, NoTrace)
    ELSE IF Len(e.combined_index[1]) = 0 THEN SearchOutcome(TRUE, <<>>, NoTrace)
    ELSE IF fault = "encode" THEN SearchOutcome(FALSE, Raised(fault), NoTrace)
    ELSE IF /\ fault = "faiss_k0"
            /\ use_multi_vector
            /\ (Len(e.question_index[1]) = 0 \/ Len(e.answer_index[1]) = 0)
         THEN SearchOutcome(FALSE, <<"AssertionError">>, NoTrace)
    ELSE LET queries == IF use_synonyms THEN ExpandQuery(query) ELSE <<query>>
             all_semantic == CollectSemantic(e, queries, top_k, use_multi_vector, <<>>)
             bm25_results ==
                 CollectBm25(e, IF use_synonyms THEN queries ELSE <<query>>,
                             top_k, use_multi_vector, <<>>)
             combined_scores ==
                 IF bm25_results # <<>>
                 THEN ReciprocalRankFusion(all_semantic, bm25_results, 3, 7)
                 ELSE all_semantic
         IN Materialize(e, all_semantic, bm25_results, combined_scores, threshold, top_k)

\* the body shared by search_questions_only and search_answers_only
SearchField(e, query, index, bm25_index, top_k, threshold, fault) ==
    IF ~e.initialized THEN SearchOutcome(FALSE, NotInitialized, NoTrace)
    ELSE IF fault = "encode" THEN SearchOutcome(FALSE, Raised(fault), NoTrace)
    ELSE IF fault = "faiss_k0" /\ Len(index[1]) = 0
         THEN SearchOutcome(FALSE, <<"AssertionError">>, NoTrace)
    ELSE LET semantic_results == SemanticSearchIndex(query, index, top_k)
             bm25_results == Bm25SearchIndex(query, bm25_index, top_k)
             combined == ReciprocalRankFusion(semantic_results, bm25_results, 10, 10)
         IN Materialize(e, semantic_results, bm25_results, combined, threshold, top_k)

\* SearchEngine.search_questions_only
SearchQuestionsOnly(e, query, top_k, threshold, fault) ==
    SearchField(e, query, e.question_index, e.bm25_questions, top_k, threshold, fault)

\* SearchEngine.search_answers_only
SearchAnswersOnly(e, query, top_k, threshold, fault) ==
    SearchField(e, query, e.answer_index, e.bm25_answers, top_k, threshold, fault)

\* ------------------------------------------------------------ the state
VARIABLES
    engine,    \* the fields of the SearchEngine singleton
    disk,      \* the snapshot files under data/
    lastCall,  \* the last engine call: its name, argument, outcome and result
    clean,     \* no ingestion or life-cycle call has raised so far
    faults,    \* how many calls were stopped by a fault of the environment
    found,     \* the last query of SpecSearch: its arguments, result and trace
    loop,      \* the event loop of the bot process (SpecLoop)
    script     \* the engine instance of the indexer or import script (SpecScript)

vars == <<engine, disk, lastCall, clean, faults, found, loop, script>>

Call(op, arg, ok, ret) == [op |-> op, arg |-> arg, ok |-> ok, ret |-> ret]
NoCall == Call("none", <<>>, TRUE, PyNone)

Found(op, query, top_k, threshold, use_synonyms, use_multi_vector, o) ==
    [op |-> op, query |-> query, top_k |-> top_k, threshold |-> threshold,
     use_synonyms |-> use_synonyms, use_multi_vector |-> use_multi_vector,
     ok |-> o.ok, ret |-> o.ret, trace |-> o.trace]
NoFound ==
    Found("none", <<>>, 0, 0, FALSE, FALSE, SearchOutcome(TRUE, <<>>, NoTrace))

\* no handler of the bot is running or waiting
NoLoop == [running |-> "none"]

\* no script process is running
NoScript == [pc |-> "none"]

IndexLen(index) == IF IsNone(index) THEN 0 ELSE Len(index[1])

\* arguments of the queries
Queries == {<<"zakat", "wudu">>, <<"alms">>, <<"a">>, <<"alms", "wudu">>}
TopKs == {1, 2}
\* the default threshold of search (0.5) and config.SIMILARITY_THRESHOLD (0.65)
Thresholds == {Unit \div 2, (Unit * 65) \div 100}
\* the queries sent while the store changes
LifeQueries == {<<"zakat", "wudu">>, <<"alms">>}
LifeThresholds == {Unit \div 2}

\* the fault can stop a query of this engine on this index
QueryMayFail(e, fault, indexes) ==
    \/ fault = "none"
    \/ fault = "encode"
    \/ fault = "faiss_k0" /\ \E index \in indexes : IndexLen(index) = 0

\* the largest of the document list and the three vector indexes
StoreSize(e) ==
    Max(Max(Len(e.documents), IndexLen(e.question_index)),
        Max(IndexLen(e.answer_index), IndexLen(e.combined_index)))

Init ==
    /\ engine = NewEngine
    /\ disk \in InitDisks
    /\ lastCall = NoCall
    /\ clean = TRUE
    /\ faults = 0
    /\ found = NoFound
    /\ loop = NoLoop
    /\ script = NoScript

\* a fault may be injected while the budget lasts
MayFail(fault) == fault = "none" \/ faults < MaxFaults

\* the call was stopped by the injected fault
Hit(o) == ~o.ok /\ o.ret[1] = "Exception"

\* the state a call leaves behind
Commit(o, op, arg) ==
    /\ engine' = o.engine
    /\ disk' = o.disk
    /\ lastCall' = Call(op, IF o.ok THEN arg ELSE <<>>, o.ok, o.ret)
    /\ clean' = (clean /\ o.ok)
    /\ faults' = IF Hit(o) THEN faults + 1 ELSE faults
    /\ UNCHANGED <<found, loop, script>>

\* a variant in which a query brings the lexical indexes up to date first
CommitQueryRebuildingBm25(o, op) ==
    /\ lastCall' = Call(op, <<>>, o.ok, IF o.ok THEN PyNone ELSE o.ret)
    /\ engine' = IF engine.initialized THEN BuildBm25Indexes(engine, "none") ELSE engine
    /\ UNCHANGED <<disk, clean, faults, found, loop, script>>

\* a query: the engine and the disk are not assigned by any of its statements;
\* the result list of a successful query is kept in found by SpecSearch only
CommitQuery(o, op) ==
    /\ lastCall' = Call(op, <<>>, o.ok, IF o.ok THEN PyNone ELSE o.ret)
    /\ UNCHANGED <<engine, disk, clean, faults, found, loop, script>>

DoInitialize ==
    \E fault \in Faults :
        /\ MayFail(fault)
        /\ Commit(Initialize(engine, disk, fault), "initialize", <<>>)

DoAddDocument ==
    \E doc \in InDocs, fault \in Faults :
        /\ MayFail(fault)
        /\ StoreSize(engine) < MaxDocs
        /\ Commit(AddDocument(engine, disk, doc, fault), "add_document", <<doc>>)

DoAddDocumentsBatch ==
    \E docs \in Batches, fault \in Faults :
        /\ MayFail(fault)
        /\ StoreSize(engine) + Len(docs) <= MaxDocs
        /\ Commit(AddDocumentsBatch(engine, disk, docs, fault), "add_documents_batch", docs)

DoRebuildIndex ==
    \E docs \in Batches, fault \in Faults :
        /\ MayFail(fault)
        /\ Len(docs) <= MaxDocs
        /\ Commit(RebuildIndex(engine, disk, docs, fault), "rebuild_index", docs)

DoClearIndex ==
    \E fault \in WriteFaults \cup {"none"} :
        /\ MayFail(fault)
        /\ Commit(ClearIndex(engine, disk, fault), "clear_index", <<>>)

DoGetDocumentCount ==
    /\ lastCall' = Call("get_document_count", <<>>, TRUE,
                        GetDocumentCount(engine, disk).ret)
    /\ UNCHANGED <<engine, disk, clean, faults, found, loop, script>>

DoSearch ==
    \E query \in LifeQueries, top_k \in TopKs, threshold \in LifeThresholds,
       use_multi_vector \in BOOLEAN, fault \in SearchFaults :
        /\ QueryMayFail(engine, fault, {engine.question_index, engine.answer_index})
        /\ CommitQuery(Search(engine, query, top_k, threshold, TRUE,
                              use_multi_vector, fault), "search")

DoSearchQuestionsOnly ==
    \E query \in LifeQueries, top_k \in TopKs, threshold \in LifeThresholds,
       fault \in SearchFaults :
        /\ QueryMayFail(engine, fault, {engine.question_index})
        /\ CommitQuery(SearchQuestionsOnly(engine, query, top_k, threshold, fault),
                       "search_questions_only")

DoSearchAnswersOnly ==
    \E query \in LifeQueries, top_k \in TopKs, threshold \in LifeThresholds,
       fault \in SearchFaults :
        /\ QueryMayFail(engine, fault, {engine.answer_index})
        /\ CommitQuery(SearchAnswersOnly(engine, query, top_k, threshold, fault),
                       "search_answers_only")

\* the process ends and a new one constructs the module-level singleton
Restart ==
    /\ engine' = NewEngine
    /\ lastCall' = Call("restart", <<>>, TRUE, PyNone)
    /\ UNCHANGED <<disk, clean, faults, found, loop, script>>

Next ==
    \/ DoInitialize
    \/ DoAddDocument
    \/ DoAddDocumentsBatch
    \/ DoRebuildIndex
    \/ DoClearIndex
    \/ DoGetDocumentCount
    \/ DoSearch
    \/ DoSearchQuestionsOnly
    \/ DoSearchAnswersOnly
    \/ Restart

Spec == Init /\ [][Next]_vars

\* the same engine in an environment that never fails: the embedder, the
\* BM25 constructors and the file system always succeed
InitNoFault ==
    /\ engine = NewEngine
    /\ disk \in InitDisks
    /\ lastCall = NoCall
    /\ clean = TRUE
    /\ faults = MaxFaults
    /\ found = NoFound
    /\ loop = NoLoop
    /\ script = NoScript

SpecNoFault == InitNoFault /\ [][Next]_vars

\* the same engine in an environment in which only the embedder fails: the
\* BM25 constructors and the file system always succeed
OnlyEmbedderFails ==
    (~lastCall'.ok /\ lastCall'.ret[1] = "Exception") => lastCall'.ret = Raised("encode")

NextEmbedderFault ==
    \/ DoInitialize /\ OnlyEmbedderFails
    \/ DoAddDocument /\ OnlyEmbedderFails
    \/ DoAddDocumentsBatch /\ OnlyEmbedderFails
    \/ DoRebuildIndex /\ OnlyEmbedderFails
    \/ DoClearIndex /\ OnlyEmbedderFails
    \/ DoGetDocumentCount
    \/ DoSearch
    \/ DoSearchQuestionsOnly
    \/ DoSearchAnswersOnly
    \/ Restart

SpecEmbedderFault == Init /\ [][NextEmbedderFault]_vars

\* --------------------------------------------------- queries of a store
\* the initialized engine of a process started on an empty data directory
FreshEngine == Initialize(NewEngine, EmptyDisk, "none").engine

\* the stores rebuild_index leaves for the document lists up to MaxStore
Stores ==
    {RebuildIndex(FreshEngine, EmptyDisk, docs, "none") :
        docs \in SeqsUpTo(SearchDocs, MaxStore) \cup SeqsUpTo(SameAnswerDocs, MaxDocs)}

InitSearch ==
    /\ \E o \in Stores : engine = o.engine /\ disk = o.disk
    /\ lastCall = NoCall
    /\ clean = TRUE
    /\ faults = 0
    /\ found = NoFound
    /\ loop = NoLoop
    /\ script = NoScript

\* a behaviour of SpecSearch is one query of one store
QuerySearch ==
    found = NoFound /\
    \E query \in Queries, top_k \in TopKs, threshold \in Thresholds,
       use_synonyms \in BOOLEAN, use_multi_vector \in BOOLEAN, fault \in SearchFaults :
        /\ found' = Found("search", query, top_k, threshold, use_synonyms,
                          use_multi_vector,
                          Search(engine, query, top_k, threshold, use_synonyms,
                                 use_multi_vector, fault))
        /\ UNCHANGED <<engine, disk, lastCall, clean, faults, loop, script>>

QuerySearchQuestionsOnly ==
    found = NoFound /\
    \E query \in Queries, top_k \in TopKs, threshold \in Thresholds, fault \in SearchFaults :
        /\ found' = Found("search_questions_only", query, top_k, threshold, FALSE, FALSE,
                          SearchQuestionsOnly(engine, query, top_k, threshold, fault))
        /\ UNCHANGED <<engine, disk, lastCall, clean, faults, loop, script>>

QuerySearchAnswersOnly ==
    found = NoFound /\
    \E query \in Queries, top_k \in TopKs, threshold \in Thresholds, fault \in SearchFaults :
        /\ found' = Found("search_answers_only", query, top_k, threshold, FALSE, FALSE,
                          SearchAnswersOnly(engine, query, top_k, threshold, fault))
        /\ UNCHANGED <<engine, disk, lastCall, clean, faults, loop, script>>

NextSearch ==
    \/ QuerySearch
    \/ QuerySearchQuestionsOnly
    \/ QuerySearchAnswersOnly

SpecSearch == InitSearch /\ [][NextSearch]_vars

\* ----------------------------------------------------------------- claims
SearchOps == {"search", "search_questions_only", "search_answers_only"}

\* C10: in the three searches a candidate of the fused map is kept iff its
\* semantic score reaches the caller's threshold or its lexical score
\* reaches 0.5 (a missing score counts as 0), whatever the caller's threshold.
C10_InclusionRule ==
    found.op \in SearchOps =>
        \A idx \in DictKeys(found.trace.combined) :
            (idx \in DictKeys(found.trace.filtered)) <=>
                \/ DictValue(found.trace.semantic, idx, 0) >= found.threshold
                \/ 2 * DictValue(found.trace.bm25, idx, 0) >= Unit

\* a query with the higher threshold that kept a candidate on its lexical
\* score alone and dropped another candidate
C10_Witness ==
    /\ found.op \in SearchOps
    /\ found.threshold > Unit \div 2
    /\ \E idx \in DictKeys(found.trace.filtered) :
          /\ DictValue(found.trace.semantic, idx, 0) < found.threshold
          /\ 2 * DictValue(found.trace.bm25, idx, 0) >= Unit
          /\ DictValue(found.trace.bm25, idx, 0) < found.threshold
    /\ DictKeys(found.trace.combined) # DictKeys(found.trace.filtered)


IngestOps == {"add_document", "add_documents_batch"}
ChangeOps == {"initialize", "add_document", "add_documents_batch",
              "rebuild_index", "clear_index"}
BoundaryOps == {"add_document", "add_documents_batch", "search",
                "search_questions_only", "search_answers_only",
                "get_document_count", "clear_index", "rebuild_index"}

\* the document list, the three vector indexes and the two lexical indexes
Memory(e) ==
    <<e.documents, e.question_index, e.answer_index, e.combined_index,
      e.bm25_questions, e.bm25_answers>>

\* C1: after any sequence of successful initialize, add, add_batch, rebuild
\* and clear calls from an empty or consistent snapshot, the question, answer
\* and combined vector indexes each hold exactly get_document_count() entries.
C1_IndexesHoldDocumentCount ==
    (clean /\ lastCall.op \in ChangeOps) =>
        /\ ~IsNone(engine.question_index)
        /\ ~IsNone(engine.answer_index)
        /\ ~IsNone(engine.combined_index)
        /\ IndexLen(engine.question_index) = GetDocumentCount(engine, disk).ret[2]
        /\ IndexLen(engine.answer_index) = GetDocumentCount(engine, disk).ret[2]
        /\ IndexLen(engine.combined_index) = GetDocumentCount(engine, disk).ret[2]

\* only successful calls so far, the last one an add onto a store of one document
C1_Witness ==
    /\ clean
    /\ lastCall.op = "add_document"
    /\ Len(engine.documents) = 2
    /\ IndexLen(engine.combined_index) = 2

\* C2 (as claimed): when add or add_batch raises, the document list, the three
\* vector indexes and both lexical indexes are what they were before the call.
C2_FailedIngestionChangesNothing ==
    [][(lastCall'.op \in IngestOps /\ ~lastCall'.ok) => Memory(engine)' = Memory(engine)]_vars

\* C3: add returns the document count before the call; add_batch(docs) appends
\* docs in input order, so the count rises by len(docs); neither call changes
\* the position or content of a document stored before.
C3_AppendsInOrder ==
    [][/\ (lastCall'.op = "add_document" /\ lastCall'.ok) =>
            /\ lastCall'.ret = PyInt(Len(engine.documents))
            /\ engine'.documents = Append(engine.documents, StoredDoc(lastCall'.arg[1]))
       /\ (lastCall'.op = "add_documents_batch" /\ lastCall'.ok) =>
            /\ engine'.documents =
                  engine.documents \o [i \in 1..Len(lastCall'.arg) |->
                                          StoredDoc(lastCall'.arg[i])]
            /\ Len(engine'.documents) = Len(engine.documents) + Len(lastCall'.arg)
      ]_vars

\* an add onto a store of one different document returned ordinal 1
C3_Witness ==
    /\ lastCall.op = "add_document"
    /\ lastCall.ok
    /\ lastCall.ret = PyInt(1)
    /\ engine.documents[1] # engine.documents[2]

\* C4: add_batch([]) on an initialized engine changes nothing: the document
\* list, the vector indexes, the lexical indexes and the snapshot stay as they are.
C4_EmptyBatchIsNoOp ==
    [][(engine.initialized /\ lastCall'.op = "add_documents_batch"
        /\ lastCall'.ok /\ lastCall'.arg = <<>>)
       => (engine' = engine /\ disk' = disk)]_vars

\* an empty batch was handed to an initialized engine whose snapshot does not
\* exist yet
C4_Witness ==
    /\ engine.initialized
    /\ lastCall.op = "add_documents_batch"
    /\ lastCall.ok
    /\ lastCall.arg = <<>>
    /\ ~HasMultiIndex(disk)

\* the three index files hold as many vectors as documents.json holds documents
SnapshotConsistent(d) ==
    /\ Len(d.questions[1]) = Len(d.documents[1])
    /\ Len(d.answers[1]) = Len(d.documents[1])
    /\ Len(d.combined[1]) = Len(d.documents[1])

\* C5 (as claimed): when initialize loads a multi-index snapshot in which a
\* vector index count differs from the length of the document list, the
\* snapshot is rejected and the engine starts empty.
C5_MismatchedSnapshotRejected ==
    [][(/\ ~engine.initialized
        /\ lastCall'.op = "initialize"
        /\ lastCall'.ok
        /\ HasMultiIndex(disk)
        /\ ~SnapshotConsistent(disk))
       => (/\ engine'.documents = <<>>
           /\ IndexLen(engine'.question_index) = 0
           /\ IndexLen(engine'.answer_index) = 0
           /\ IndexLen(engine'.combined_index) = 0)]_vars

\* C6 (as claimed): every boundary operation called before initialize has
\* completed fails with the not-initialized error and leaves the engine and
\* the snapshot unchanged.
C6_FailsFastBeforeInitialize ==
    [][(~engine.initialized /\ lastCall'.op \in BoundaryOps)
       => (/\ ~lastCall'.ok
           /\ lastCall'.ret = NotInitialized
           /\ engine' = engine
           /\ disk' = disk)]_vars

\* what a fresh engine holds after initialize on this disk
Reloaded(d) == Initialize(NewEngine, d, "none")

\* C7 (as claimed): after any successful add or add_batch, a fresh engine
\* initialized from the snapshot has the same document list, vector indexes
\* and lexical indexes as the engine that made the call.
C7_SnapshotRoundTrip ==
    (lastCall.op \in IngestOps /\ lastCall.ok) =>
        /\ Reloaded(disk).ok
        /\ Memory(Reloaded(disk).engine) = Memory(engine)

\* C8: rebuild is idempotent: for every document list and every prior engine
\* state, rebuild(docs); rebuild(docs) leaves what a single rebuild(docs) leaves.
C8_RebuildIdempotent ==
    \A docs \in Batches :
        LET once == RebuildIndex(engine, disk, docs, "none")
            twice == RebuildIndex(once.engine, once.disk, docs, "none")
        IN /\ twice.engine = once.engine
           /\ twice.disk = once.disk
           /\ twice.ok = once.ok

\* a store of two documents that rebuild left, which rebuilding again from the
\* same list leaves as it is
C8_Witness ==
    /\ lastCall.op = "rebuild_index"
    /\ lastCall.ok
    /\ Len(lastCall.arg) = 2
    /\ RebuildIndex(engine, disk, lastCall.arg, "none").engine = engine
    /\ RebuildIndex(engine, disk, lastCall.arg, "none").disk = disk


\* ------------------------------------------------------- the bot process
\* Two handlers of the bot run as tasks of one asyncio event loop:
\* handlers/admin.py publish_post, which calls search_engine.add_document,
\* and the question handler of handlers/user.py, which calls
\* search_engine.search.  A task keeps the loop until it reaches an await.
\*
\* positions of publish_post: waiting for the channel post and the database
\* (publishing), the statements of add_document (encode, index_add, append,
\* bm25, save), waiting for bot.send_message (notifying)
AdminPcs == {"idle", "publishing", "encode", "index_add", "append", "bm25", "save",
             "notifying"}
\* positions of the question handler: waiting for message.answer (searching),
\* waiting for the reply to be sent (answering)
UserPcs == {"idle", "searching", "answering"}

\* the positions at which a handler awaits, and so lets other handlers run
IsAwaitPoint(pc) == pc \in {"idle", "publishing", "notifying", "searching", "answering"}

\* what a query saw of the engine, and where publish_post stood
Observation(e, admin) ==
    [seen |-> TRUE,
     vectors |-> Max(IndexLen(e.question_index),
                     Max(IndexLen(e.answer_index), IndexLen(e.combined_index))),
     documents |-> Len(e.documents),
     lexical |-> Min(IndexLen(e.bm25_questions), IndexLen(e.bm25_answers)),
     admin |-> admin]
NoObservation ==
    [seen |-> FALSE, vectors |-> 0, documents |-> 0, lexical |-> 0, admin |-> "idle"]

InitLoop ==
    /\ engine = FreshEngine
    /\ disk = EmptyDisk
    /\ lastCall = NoCall
    /\ clean = TRUE
    /\ faults = 0
    /\ found = NoFound
    /\ loop = [running |-> "none", admin |-> "idle", user |-> "idle",
               doc |-> DocA, observed |-> NoObservation]
    /\ script = NoScript

\* the task may take its next step: at an await it needs the loop to be free,
\* inside synchronous code it holds the loop
CanStep(task, pc) ==
    IF IsAwaitPoint(pc) THEN loop.running = "none" ELSE loop.running = task

\* who holds the loop once the task stands at pc
Holder(task, pc) == IF IsAwaitPoint(pc) THEN "none" ELSE task

AdminGoes(pc) == [loop EXCEPT !.admin = pc, !.running = Holder("admin", pc)]

\* the document publish_post hands to add_document: all five keys
PublishedDocs == {DocA}

\* the admin presses "publish": publish_post runs up to its first await
AdminStart ==
    \E doc \in PublishedDocs :
        /\ loop.admin = "idle"
        /\ CanStep("admin", "idle")
        /\ StoreSize(engine) < MaxDocs
        /\ loop' = [AdminGoes("publishing") EXCEPT !.doc = doc]
        /\ UNCHANGED <<engine, disk, lastCall, clean, faults, found, script>>

\* the channel post and the database update are done: add_document is entered
AdminEnterAdd ==
    /\ loop.admin = "publishing"
    /\ CanStep("admin", "publishing")
    /\ loop' = AdminGoes("encode")
    /\ UNCHANGED <<engine, disk, lastCall, clean, faults, found, script>>

\* lines 290-292: the embeddings; an exception ends the handler
AdminAddEncode ==
    \E fault \in {"none", "encode"} :
        /\ loop.admin = "encode"
        /\ CanStep("admin", "encode")
        /\ MayFail(fault)
        /\ loop' = AdminGoes(IF fault = "encode" THEN "idle" ELSE "index_add")
        /\ faults' = IF fault = "encode" THEN faults + 1 ELSE faults
        /\ clean' = (clean /\ fault = "none")
        /\ UNCHANGED <<engine, disk, lastCall, found, script>>

\* lines 295-297
AdminAddIndex ==
    /\ loop.admin = "index_add"
    /\ CanStep("admin", "index_add")
    /\ engine' = AddToIndexes(engine, <<loop.doc>>)
    /\ loop' = AdminGoes("append")
    /\ UNCHANGED <<disk, lastCall, clean, faults, found, script>>

\* lines 300-306
AdminAddAppend ==
    /\ loop.admin = "append"
    /\ CanStep("admin", "append")
    /\ engine' = AppendDocuments(engine, <<loop.doc>>)
    /\ loop' = AdminGoes("bm25")
    /\ UNCHANGED <<disk, lastCall, clean, faults, found, script>>

\* line 309
AdminAddBm25 ==
    \E fault \in BmFaults \cup {"none"} :
        /\ loop.admin = "bm25"
        /\ CanStep("admin", "bm25")
        /\ MayFail(fault)
        /\ engine' = BuildBm25Indexes(engine, fault)
        /\ loop' = AdminGoes(IF fault = "none" THEN "save" ELSE "idle")
        /\ faults' = IF fault = "none" THEN faults ELSE faults + 1
        /\ clean' = (clean /\ fault = "none")
        /\ UNCHANGED <<disk, lastCall, found, script>>

\* line 312, then the handler goes on to await bot.send_message
AdminAddSave ==
    \E fault \in WriteFaults \cup {"none"} :
        /\ loop.admin = "save"
        /\ CanStep("admin", "save")
        /\ MayFail(fault)
        /\ disk' = SaveAllIndexes(engine, disk, fault)
        /\ loop' = AdminGoes(IF fault = "none" THEN "notifying" ELSE "idle")
        /\ faults' = IF fault = "none" THEN faults ELSE faults + 1
        /\ clean' = (clean /\ fault = "none")
        /\ lastCall' = Call("add_document", <<>>, fault = "none", PyNone)
        /\ UNCHANGED <<engine, found, script>>

\* the notification is sent and the handler returns
AdminFinish ==
    /\ loop.admin = "notifying"
    /\ CanStep("admin", "notifying")
    /\ loop' = AdminGoes("idle")
    /\ UNCHANGED <<engine, disk, lastCall, clean, faults, found, script>>

UserGoes(pc) == [loop EXCEPT !.user = pc, !.running = Holder("user", pc)]

\* a user sends a question: the handler runs up to await message.answer
UserStart ==
    /\ loop.user = "idle"
    /\ CanStep("user", "idle")
    /\ loop' = UserGoes("searching")
    /\ UNCHANGED <<engine, disk, lastCall, clean, faults, found, script>>

\* search_engine.search runs to its end, then the handler awaits the reply
UserSearch ==
    \E query \in LifeQueries :
        /\ loop.user = "searching"
        /\ CanStep("user", "searching")
        /\ LET o == Search(engine, query, 3, (Unit * 65) \div 100, TRUE, TRUE, "none")
           IN lastCall' = Call("search", <<>>, o.ok, IF o.ok THEN PyNone ELSE o.ret)
        /\ loop' = [UserGoes("answering") EXCEPT
                       !.observed = Observation(engine, loop.admin)]
        /\ UNCHANGED <<engine, disk, clean, faults, found, script>>

\* the reply is sent and the handler returns
UserFinish ==
    /\ loop.user = "answering"
    /\ CanStep("user", "answering")
    /\ loop' = UserGoes("idle")
    /\ UNCHANGED <<engine, disk, lastCall, clean, faults, found, script>>

NextLoop ==
    \/ AdminStart
    \/ AdminEnterAdd
    \/ AdminAddEncode
    \/ AdminAddIndex
    \/ AdminAddAppend
    \/ AdminAddBm25
    \/ AdminAddSave
    \/ AdminFinish
    \/ UserStart
    \/ UserSearch
    \/ UserFinish

SpecLoop == InitLoop /\ [][NextLoop]_vars

\* C9 (as claimed): in the bot process no search runs between an ingestion's
\* first index mutation and the end of its lexical rebuild and snapshot write,
\* so no query observes vector indexes longer than the document list or the
\* lexical indexes.
C9_QueriesSeeWholeIngestions ==
    loop.observed.seen =>
        /\ loop.observed.admin \notin {"append", "bm25", "save"}
        /\ loop.observed.vectors <= loop.observed.documents
        /\ loop.observed.vectors <= loop.observed.lexical

\* the first half of C9 alone: no search runs between the first index
\* mutation of an ingestion and the end of its snapshot write
NoSearchInsideIngestion ==
    loop.observed.seen => loop.observed.admin \notin {"append", "bm25", "save"}


\* ----------------------------------------------- claims about the queries
\* the variants search works with
VariantsOf(query, use_synonyms) == IF use_synonyms THEN ExpandQuery(query) ELSE <<query>>

SetMax(S) == CHOOSE x \in S : \A y \in S : y <= x

\* the best weighted inner product of a document with any variant in any
\* vector index the mode consults, computed on the whole index
BestSemantic(e, queries, idx, use_multi_vector) ==
    SetMax({IF use_multi_vector
            THEN Max(Max(0, Cos(queries[v], e.question_index[1][idx + 1])),
                     Max((18 * Cos(queries[v], e.answer_index[1][idx + 1])) \div 20,
                         (19 * Cos(queries[v], e.combined_index[1][idx + 1])) \div 20))
            ELSE Cos(queries[v], e.combined_index[1][idx + 1]) : v \in DOMAIN queries})

\* the normalised lexical score of a document in one BM25 index, computed on
\* the whole corpus
NormalisedLexical(bm25_index, query, idx) ==
    IF IsNone(bm25_index) THEN 0
    ELSE LET scores == Bm25GetScores(bm25_index[1], Tokenize(query))
         IN IF scores[idx + 1][2] > 0
            THEN (Unit * scores[idx + 1][2]) \div MaxScore(scores) ELSE 0

BestLexical(e, queries, idx, use_multi_vector) ==
    SetMax({IF use_multi_vector
            THEN Max(NormalisedLexical(e.bm25_questions, queries[v], idx),
                     NormalisedLexical(e.bm25_answers, queries[v], idx))
            ELSE NormalisedLexical(e.bm25, queries[v], idx) : v \in DOMAIN queries})

\* the ordinals that qualify for the last query
Qualifying ==
    LET queries == VariantsOf(found.query, found.use_synonyms)
    IN {idx \in 0..(Len(engine.documents) - 1) :
          \/ BestSemantic(engine, queries, idx, found.use_multi_vector) >= found.threshold
          \/ BestLexical(engine, queries, idx, found.use_multi_vector) >= BM25_THRESHOLD}

\* the ordinals that qualify when every field counts, whatever the mode
QualifyingInAllFields ==
    LET queries == VariantsOf(found.query, found.use_synonyms)
    IN {idx \in 0..(Len(engine.documents) - 1) :
          \/ BestSemantic(engine, queries, idx, TRUE) >= found.threshold
          \/ BestLexical(engine, queries, idx, TRUE) >= BM25_THRESHOLD}

\* C11 (as claimed): search returns exactly min(top_k, n) results, n the number
\* of stored documents whose best weighted semantic score over all variants and
\* all fields reaches the threshold or whose best normalised lexical score
\* reaches 0.5.
C11_ReturnsMinTopKQualifyingInAllFields ==
    (found.op = "search" /\ found.ok) =>
        Len(found.ret) = Min(found.top_k, Cardinality(QualifyingInAllFields))

\* C11 (amended): search returns exactly min(top_k, n) results, n the number of
\* stored documents whose best semantic score over the variants and over the
\* vector indexes the call consults (question, answer and combined, weighted,
\* with use_multi_vector; the combined index alone without it) reaches the
\* threshold or whose best normalised lexical score in the lexical indexes the
\* call consults reaches 0.5; the cut of every index at 3 * top_k candidates
\* never costs a result.
C11_ReturnsMinTopKQualifying ==
    (found.op = "search" /\ found.ok) =>
        Len(found.ret) = Min(found.top_k, Cardinality(Qualifying))

\* a query of a store larger than the cut, in which a qualifying document is
\* no candidate and top_k documents are returned
C11_Witness ==
    /\ found.op = "search"
    /\ found.ok
    /\ Len(engine.documents) > 3 * found.top_k
    /\ Len(found.ret) = found.top_k
    /\ \E idx \in Qualifying : idx \notin DictKeys(found.trace.combined)


\* the fused score of the last query is a score of _reciprocal_rank_fusion
FusionApplied == found.op # "search" \/ found.trace.bm25 # <<>>

\* C12: the list search returns is ordered by non-increasing fused score and is
\* a prefix of the admitted candidates in that order: no admitted candidate
\* left out has a strictly higher fused score than a returned one.
C12_OrderedPrefixOfAdmitted ==
    (found.op = "search" /\ found.ok) =>
        LET top == found.trace.top
            admitted == found.trace.filtered
        IN /\ Len(found.ret) = Len(top)
           /\ \A i \in DOMAIN top : found.ret[i][1] = engine.documents[top[i][1] + 1]
           /\ \A i, j \in DOMAIN top : i < j => top[i][2] >= top[j][2]
           /\ \A k \in DOMAIN admitted :
                 (\A i \in DOMAIN top : top[i][1] # admitted[k][1]) =>
                     \A i \in DOMAIN top : admitted[k][2] <= top[i][2]

\* a query that returned two documents with different fused scores and left
\* an admitted candidate out
C12_Witness ==
    /\ found.op = "search"
    /\ found.ok
    /\ Len(found.trace.top) = 2
    /\ found.trace.top[1][2] > found.trace.top[2][2]
    /\ Len(found.trace.filtered) > Len(found.trace.top)

\* C13 (as claimed): of two admitted candidates with equal fused scores search
\* places the one with the lower ordinal first.
C13_TiesByOrdinal ==
    (found.op = "search" /\ found.ok) =>
        \A i, j \in DOMAIN found.trace.top :
            (i < j /\ found.trace.top[i][2] = found.trace.top[j][2]) =>
                found.trace.top[i][1] < found.trace.top[j][1]

\* an upper bound, in thousandths, of a fused score
FusedThousandths(rrf_score) == (rrf_score \div (RrfScale \div 100)) + 1

\* C14: every result of search, search_questions_only and search_answers_only
\* carries max(semantic score, lexical score) of its ordinal (a missing score
\* counts as 0), never the fused score.
C14_DisplayScoreIsBestRawScore ==
    (found.op \in SearchOps /\ found.ok) =>
        \A i \in DOMAIN found.ret :
            LET idx == found.trace.top[i][1]
                semantic_score == DictValue(found.trace.semantic, idx, 0)
                lexical_score == DictValue(found.trace.bm25, idx, 0)
            IN /\ found.ret[i][2] = Max(semantic_score, lexical_score)
               /\ FusionApplied =>
                     1000 * found.ret[i][2] >
                         Unit * FusedThousandths(found.trace.top[i][2])

\* a fused query with a result whose lexical score is above its semantic score
C14_Witness ==
    /\ found.op \in SearchOps
    /\ found.ok
    /\ FusionApplied
    /\ \E i \in DOMAIN found.ret :
          DictValue(found.trace.bm25, found.trace.top[i][1], 0) >
              DictValue(found.trace.semantic, found.trace.top[i][1], 0)


\* --------------------------------------- claims about the empty engine
\* C15 (as claimed): on an initialized engine whose document list is empty,
\* search returns the empty list at once: neither the expander nor the
\* embedder is reached, so no fault of theirs can stop the call.
C15_EmptyStoreReturnsAtOnce ==
    (engine.initialized /\ engine.documents = <<>>) =>
        \A query \in LifeQueries, top_k \in TopKs, threshold \in LifeThresholds,
           use_synonyms \in BOOLEAN, use_multi_vector \in BOOLEAN,
           fault \in SearchFaults :
            Search(engine, query, top_k, threshold, use_synonyms, use_multi_vector,
                   fault) = SearchOutcome(TRUE, <<>>, NoTrace)

FieldOps == {"search_questions_only", "search_answers_only"}

\* C16 (as claimed): on an initialized engine whose document list is empty,
\* search_questions_only and search_answers_only return the empty list and
\* raise nothing (the embedder itself working).
C16_FieldSearchOfEmptyStore ==
    [][(/\ engine.initialized
        /\ engine.documents = <<>>
        /\ lastCall'.op \in FieldOps
        /\ ~(~lastCall'.ok /\ lastCall'.ret = Raised("encode")))
       => lastCall'.ok]_vars


\* ------------------------------------------ claims about the legacy upgrade
\* the directory holds the legacy files and not the whole multi-index set
LegacyOnly(d) == HasLegacyIndex(d) /\ ~HasMultiIndex(d)

\* the engine and the disk an upgrade of these stored documents has to leave
Upgraded(e, d, docs) ==
    /\ e.initialized
    /\ e.documents = docs
    /\ e.question_index = Some([i \in 1..Len(docs) |-> EncodeQuestion(docs[i])])
    /\ e.answer_index = Some([i \in 1..Len(docs) |-> EncodeAnswer(docs[i])])
    /\ e.combined_index = Some([i \in 1..Len(docs) |-> EncodeCombined(docs[i])])
    /\ IndexLen(e.bm25_questions) = Len(docs)
    /\ IndexLen(e.bm25_answers) = Len(docs)
    /\ IndexLen(e.bm25) = Len(docs)
    /\ HasMultiIndex(d)
    /\ d.questions = e.question_index
    /\ d.answers = e.answer_index
    /\ d.combined = e.combined_index
    /\ JsonLoad(d.documents[1]) = docs

\* C17 (as claimed): initialize on a directory holding only a legacy snapshot
\* of n documents ends with an initialized engine whose three vector indexes
\* hold n entries recomputed from the texts, whose lexical indexes cover the n
\* documents, and with the multi-index snapshot written.
C17_LegacyUpgraded ==
    [][(/\ ~engine.initialized
        /\ lastCall'.op = "initialize"
        /\ lastCall'.ok
        /\ LegacyOnly(disk))
       => Upgraded(engine', disk', JsonLoad(disk.documents[1]))]_vars

\* C17 (amended): the same for a legacy snapshot of at least one document.
C17_NonEmptyLegacyUpgraded ==
    [][(/\ ~engine.initialized
        /\ lastCall'.op = "initialize"
        /\ lastCall'.ok
        /\ LegacyOnly(disk)
        /\ JsonLoad(disk.documents[1]) # <<>>)
       => Upgraded(engine', disk', JsonLoad(disk.documents[1]))]_vars

\* initialize has upgraded a legacy snapshot of one document: the legacy file
\* is still there, next to the multi-index files
C17_Witness ==
    /\ lastCall.op = "initialize"
    /\ lastCall.ok
    /\ engine.initialized
    /\ Len(engine.documents) = 1
    /\ disk.legacy = Some(<<EncodeCombined(engine.documents[1])>>)
    /\ HasMultiIndex(disk)


\* ------------------------------------------- claims about the expansion
\* the semantic and the lexical score map of one variant alone
SemanticOf(e, query, top_k, use_multi_vector) ==
    IF use_multi_vector THEN MultiVectorSearch(e, query, top_k)
    ELSE SemanticSearch(e, query, top_k)

LexicalOf(e, query, top_k, use_multi_vector) ==
    IF use_multi_vector THEN MultiBm25Search(e, query, top_k)
    ELSE Bm25Search(e, query, top_k)

\* the score map holds, for every ordinal some variant found, the largest
\* score a variant gave it, and for no other ordinal
IsMaxOverVariants(merged, perVariant) ==
    \A idx \in 0..(Len(engine.documents) - 1) :
        LET scores == {DictValue(perVariant[v], idx, 0) :
                          v \in {w \in DOMAIN perVariant : DictHas(perVariant[w], idx)}}
        IN IF scores = {} THEN ~DictHas(merged, idx)
           ELSE DictHas(merged, idx) /\ DictValue(merged, idx, 0) = SetMax(scores)

\* no score of the map is below the score the first variant gave
NotBelowOriginal(merged, original) ==
    \A idx \in DictKeys(original) :
        DictHas(merged, idx) /\ DictValue(merged, idx, 0) >= DictValue(original, idx, 0)

\* the last call was a search with expansion that went through the indexes
ExpandedSearch ==
    /\ found.op = "search"
    /\ found.use_synonyms
    /\ found.trace # NoTrace

\* C18: with expansion the semantic and the lexical score search uses for an
\* ordinal are the maxima over the variants, so never below the scores of the
\* original query alone.
C18_ScoresAreMaxOverVariants ==
    ExpandedSearch =>
        LET variants == ExpandQuery(found.query)
            semantic == [v \in DOMAIN variants |->
                            SemanticOf(engine, variants[v], found.top_k,
                                       found.use_multi_vector)]
            lexical == [v \in DOMAIN variants |->
                           LexicalOf(engine, variants[v], found.top_k,
                                     found.use_multi_vector)]
        IN /\ variants[1] = found.query
           /\ IsMaxOverVariants(found.trace.semantic, semantic)
           /\ IsMaxOverVariants(found.trace.bm25, lexical)
           /\ NotBelowOriginal(found.trace.semantic, semantic[1])
           /\ NotBelowOriginal(found.trace.bm25, lexical[1])

\* a search with two variants in which the second variant gave an ordinal a
\* lower lexical score than the original query and another ordinal a higher
\* semantic score
C18_Witness ==
    /\ ExpandedSearch
    /\ Len(ExpandQuery(found.query)) = 2
    /\ LET second == ExpandQuery(found.query)[2]
           semantic1 == SemanticOf(engine, found.query, found.top_k, found.use_multi_vector)
           lexical1 == LexicalOf(engine, found.query, found.top_k, found.use_multi_vector)
           lexical2 == LexicalOf(engine, second, found.top_k, found.use_multi_vector)
       IN /\ \E idx \in DictKeys(lexical1) :
                DictHas(lexical2, idx)
                /\ DictValue(lexical2, idx, 0) < DictValue(lexical1, idx, 0)
          /\ \E idx \in DictKeys(semantic1) :
                DictValue(found.trace.semantic, idx, 0) > DictValue(semantic1, idx, 0)

\* C19 (as claimed): every document search returns with expansion disabled is
\* also returned, for the same store, query, top_k and threshold, with
\* expansion enabled.
C19_ExpansionKeepsResults ==
    (found.op = "search" /\ found.use_synonyms /\ found.ok) =>
        LET plain == Search(engine, found.query, found.top_k, found.threshold,
                            FALSE, found.use_multi_vector, "none")
        IN plain.ok =>
              \A i \in DOMAIN plain.trace.top :
                  \E j \in DOMAIN found.trace.top :
                      found.trace.top[j][1] = plain.trace.top[i][1]


\* the same query without expansion
PlainSearch ==
    Search(engine, found.query, found.top_k, found.threshold, FALSE,
           found.use_multi_vector, "none")

\* C19 (amended): every document the inclusion rule admits with expansion
\* disabled is also admitted, for the same store, query, top_k and threshold,
\* with expansion enabled; it is also returned whenever the expanded search
\* admits no more than top_k documents.
C19_ExpansionKeepsAdmitted ==
    (found.op = "search" /\ found.use_synonyms /\ found.ok /\ PlainSearch.ok) =>
        /\ DictKeys(PlainSearch.trace.filtered) \subseteq DictKeys(found.trace.filtered)
        /\ Len(found.trace.filtered) <= found.top_k =>
              DictKeys(PlainSearch.trace.top) \subseteq DictKeys(found.trace.top)

\* a search with expansion that admits a document the search without expansion
\* returns, and does not return it
C19_Witness ==
    /\ found.op = "search"
    /\ found.use_synonyms
    /\ found.ok
    /\ PlainSearch.ok
    /\ \E idx \in DictKeys(PlainSearch.trace.top) :
          /\ idx \in DictKeys(found.trace.filtered)
          /\ idx \notin DictKeys(found.trace.top)


\* -------------------------------------------------- claims about fusion
\* the 0-based rank of an ordinal in a result set sorted by raw score,
\* highest first, equal scores in the order of the set
RankIn(results, idx) ==
    LET pos == CHOOSE i \in DOMAIN results : results[i][1] = idx
    IN Cardinality({j \in DOMAIN results :
                       \/ results[j][2] > results[pos][2]
                       \/ results[j][2] = results[pos][2] /\ j < pos})

\* weight / (K + rank + 1) of an ordinal in a result set, 0 if it is absent;
\* weight in tenths, the result in units of 1/(10 * RrfScale)
Share(results, idx, weight) ==
    IF DictHas(results, idx)
    THEN weight * (RrfScale \div (RrfK + RankIn(results, idx) + 1))
    ELSE 0

\* the weights the last query handed to the fusion, in tenths
SemanticWeight == IF found.op = "search" THEN 3 ELSE 10
LexicalWeight == IF found.op = "search" THEN 7 ELSE 10

\* the last query fused its two score maps
Fused == found.op \in SearchOps /\ found.trace # NoTrace /\ FusionApplied

\* C20: the fusion sorts each input set by raw score, highest first, and gives
\* every ordinal the sum over the sets that hold it of weight / (K + rank + 1),
\* rank counted from 0 and K = 60; a set without the ordinal adds 0, and the
\* keys of the result are the union of the keys of the sets.
C20_FusionIsWeightedReciprocalRank ==
    Fused =>
        /\ DictKeys(found.trace.combined) =
               DictKeys(found.trace.semantic) \cup DictKeys(found.trace.bm25)
        /\ Len(found.trace.combined) = Cardinality(DictKeys(found.trace.combined))
        /\ \A idx \in DictKeys(found.trace.combined) :
               DictValue(found.trace.combined, idx, 0) =
                   Share(found.trace.semantic, idx, SemanticWeight)
                   + Share(found.trace.bm25, idx, LexicalWeight)

\* a fusion of a semantic set that is not in score order with a lexical set
\* that lacks one of its ordinals
C20_Witness ==
    /\ Fused
    /\ \E i, j \in DOMAIN found.trace.semantic :
          i < j /\ found.trace.semantic[i][2] < found.trace.semantic[j][2]
    /\ \E idx \in DictKeys(found.trace.semantic) : ~DictHas(found.trace.bm25, idx)

\* ------------------------------------------- claims about the lexical search
\* the BM25 index a field search consults
FieldBm25 ==
    IF found.op = "search_questions_only" THEN engine.bm25_questions
    ELSE engine.bm25_answers

\* the raw BM25 score of a document for the last query
RawLexical(idx) == Bm25GetScores(FieldBm25[1], Tokenize(found.query))[idx + 1][2]

\* the highest raw BM25 score of the last query over the whole corpus
BestRawLexical ==
    SetMax({RawLexical(idx) : idx \in 0..(Len(FieldBm25[1]) - 1)})

\* C21: a lexical search returns only documents whose BM25 score is > 0, each
\* score divided by the maximum score of the query: every returned score lies
\* in (0, 1] and, when the result is non-empty, a best-scoring document has
\* score exactly 1 and is among the returned candidates.
C21_LexicalScoresNormalised ==
    (found.op \in FieldOps /\ found.ok /\ ~IsNone(FieldBm25)) =>
        LET lexical == found.trace.bm25
        IN /\ \A i \in DOMAIN lexical :
                 /\ lexical[i][1] \in 0..(Len(FieldBm25[1]) - 1)
                 /\ RawLexical(lexical[i][1]) > 0
                 /\ lexical[i][2] = (Unit * RawLexical(lexical[i][1])) \div BestRawLexical
                 /\ lexical[i][2] > 0
                 /\ lexical[i][2] <= Unit
           /\ \A i, j \in DOMAIN lexical : i # j => lexical[i][1] # lexical[j][1]
           /\ lexical # <<>> =>
                 \E i \in DOMAIN lexical :
                     /\ lexical[i][2] = Unit
                     /\ RawLexical(lexical[i][1]) = BestRawLexical
           /\ (lexical = <<>>) <=> (BestRawLexical <= 0)

\* a field search whose lexical result holds a best document with score 1 and
\* another with a lower score, while a document of the store without a
\* matching term is left out
C21_Witness ==
    /\ found.op \in FieldOps
    /\ found.ok
    /\ ~IsNone(FieldBm25)
    /\ \E i, j \in DOMAIN found.trace.bm25 :
          /\ found.trace.bm25[i][2] = Unit
          /\ found.trace.bm25[j][2] < Unit
    /\ Len(found.trace.bm25) < Len(engine.documents)

\* ------------------------------------- claims about the score that orders
\* the last call was a search that went through the indexes
SearchRan == found.op = "search" /\ found.trace # NoTrace

\* the reciprocal-rank fusion of the two score maps of the last search with
\* weights 0.3 and 0.7, for one ordinal
WeightedFusion(idx) ==
    Share(found.trace.semantic, idx, 3) + Share(found.trace.bm25, idx, 7)

EmbedderStopped(call) ==
    call.op \in IngestOps /\ ~call.ok /\ call.ret = Raised("encode")

\* C23: add and add_batch modify no vector index, lexical index, document list
\* entry or snapshot file before the question and answer embeddings of every
\* document of the call are computed: a call the embedder stops leaves the
\* engine and the snapshot exactly as they were.
C23_EmbedderFailureChangesNothing ==
    [][EmbedderStopped(lastCall') => (engine' = engine /\ disk' = disk)]_vars

\* the embedder stopped an add or add_batch on a store that holds a document
\* and has a snapshot
C23_Witness ==
    /\ EmbedderStopped(lastCall)
    /\ engine.initialized
    /\ Len(engine.documents) = 1
    /\ IndexLen(engine.question_index) = 1
    /\ HasMultiIndex(disk)

\* ------------------------------------------ claims about the lexical indexes
\* the corpus a lexical index covers: one token list per document, none when
\* the index does not exist
CorpusOf(bm25_index) == IF IsNone(bm25_index) THEN <<>> ELSE bm25_index[1]

\* C24 (as claimed): after every successful initialize, add, add_batch, rebuild
\* and clear the question and answer lexical indexes are built from exactly the
\* current document list, same length and same order: no lexical index covers
\* a document that is no longer in the store.
C24_LexicalIndexesFollowDocuments ==
    (lastCall.op \in ChangeOps /\ lastCall.ok) =>
        /\ CorpusOf(engine.bm25_questions) =
              [i \in 1..Len(engine.documents) |-> Tokenize(engine.documents[i].question_text)]
        /\ CorpusOf(engine.bm25_answers) =
              [i \in 1..Len(engine.documents) |-> Tokenize(engine.documents[i].answer_text)]

\* ------------------------------------------- claims about document lookups
\* what the three searches do on this engine when nothing of the environment fails
QueriesOf(e) ==
    {SearchQuestionsOnly(e, query, top_k, threshold, "none") :
        query \in LifeQueries, top_k \in TopKs, threshold \in LifeThresholds}
    \cup {SearchAnswersOnly(e, query, top_k, threshold, "none") :
        query \in LifeQueries, top_k \in TopKs, threshold \in LifeThresholds}
    \cup {Search(e, query, top_k, threshold, TRUE, use_multi_vector, "none") :
        query \in LifeQueries, top_k \in TopKs, threshold \in LifeThresholds,
        use_multi_vector \in BOOLEAN}

\* C25 (as claimed): after any sequence of initialize, add, add_batch, rebuild
\* and clear, every ordinal that search, search_questions_only or
\* search_answers_only looks up in the document list is in
\* 0 .. get_document_count() - 1 and no ordinal appears twice in one result
\* list: a query never fails with an out-of-range document lookup.
C25_LookupsInRange ==
    /\ lastCall.op \in SearchOps => ~(~lastCall.ok /\ lastCall.ret = <<"IndexError">>)
    /\ engine.initialized =>
          \A o \in QueriesOf(engine) :
              /\ o.ok
              /\ \A i \in DOMAIN o.trace.top :
                     o.trace.top[i][1] \in 0..(GetDocumentCount(engine, disk).ret[2] - 1)
              /\ \A i, j \in DOMAIN o.trace.top :
                     i # j => o.trace.top[i][1] # o.trace.top[j][1]

\* ------------------------------------------------ claims about the snapshot
\* C26 (as claimed): the persisted snapshot is consistent at every instant the
\* process may stop: the three vector index files hold as many entries as the
\* document file holds documents, also when a save is interrupted between
\* its file writes, so a later initialize never serves indexes whose counts
\* differ from the document list.
C26_SnapshotAlwaysConsistent ==
    /\ HasMultiIndex(disk) => SnapshotConsistent(disk)
    /\ (lastCall.op = "initialize" /\ lastCall.ok) =>
          /\ IndexLen(engine.question_index) = Len(engine.documents)
          /\ IndexLen(engine.answer_index) = Len(engine.documents)
          /\ IndexLen(engine.combined_index) = Len(engine.documents)

\* the calls that are to leave memory and snapshot equal
PersistingOps == {"add_document", "add_documents_batch", "rebuild_index", "clear_index"}

\* C27 (as claimed): after every successful add, add_batch, rebuild(docs) and
\* clear the persisted snapshot holds exactly the in-memory document list and
\* vector indexes, so an engine restarted from disk reports the same
\* get_document_count(); after rebuild([]) or clear a restart yields an empty
\* engine.
C27_SnapshotHoldsMemory ==
    (lastCall.op \in PersistingOps /\ lastCall.ok) =>
        /\ Reloaded(disk).ok
        /\ Reloaded(disk).engine.documents = engine.documents
        /\ Reloaded(disk).engine.question_index = engine.question_index
        /\ Reloaded(disk).engine.answer_index = engine.answer_index
        /\ Reloaded(disk).engine.combined_index = engine.combined_index
        /\ GetDocumentCount(Reloaded(disk).engine, disk).ret =
               GetDocumentCount(engine, disk).ret

\* ------------------------------------- claims about the multi-vector score
\* the three vector indexes with their field weights, in twentieths
WeightedFields(e) ==
    {<<e.question_index[1], 20>>, <<e.answer_index[1], 18>>, <<e.combined_index[1], 19>>}

\* the ordinal is among the k vectors of the index nearest to the query,
\* equal inner products going to the lower ordinal
InTop(vectors, query, idx, k) ==
    Cardinality({j \in 0..(Len(vectors) - 1) :
                    \/ Cos(query, vectors[j + 1]) > Cos(query, vectors[idx + 1])
                    \/ Cos(query, vectors[j + 1]) = Cos(query, vectors[idx + 1]) /\ j < idx})
        < k

\* field_weight * cosine of the ordinal for every variant and every index in
\* whose top min(3 * top_k, count) it appears with that variant
FoundWeightedCosines(idx) ==
    LET queries == VariantsOf(found.query, found.use_synonyms)
    IN {(Cos(queries[v[1]], v[2][1][idx + 1]) * v[2][2]) \div 20 :
           v \in {w \in (DOMAIN queries) \X WeightedFields(engine) :
                     InTop(w[2][1], queries[w[1]], idx,
                           Min(3 * found.top_k, Len(w[2][1])))}}

\* the last call was a multi-vector search that went through the indexes
MultiVectorRan == SearchRan /\ found.use_multi_vector

\* C28 (as claimed): in multi-vector mode the semantic score of an ordinal is
\* the maximum, over all variants and over the question, answer and combined
\* indexes in whose top min(3 * top_k, count) it appears, of
\* field_weight * cosine with weights 1.0, 0.9 and 0.95, and it is never below 0.
C28_SemanticScoreIsBestWeightedCosine ==
    MultiVectorRan =>
        \A idx \in 0..(Len(engine.documents) - 1) :
            IF FoundWeightedCosines(idx) = {}
            THEN ~DictHas(found.trace.semantic, idx)
            ELSE /\ DictHas(found.trace.semantic, idx)
                 /\ DictValue(found.trace.semantic, idx, 0) =
                        SetMax(FoundWeightedCosines(idx))
                 /\ DictValue(found.trace.semantic, idx, 0) >= 0

\* C28 (amended): in multi-vector mode the semantic score of an ordinal is the
\* maximum of 0 and of field_weight * cosine, with weights 1.0, 0.9 and 0.95,
\* over all variants and over the question, answer and combined indexes in
\* whose top min(3 * top_k, count) it appears: a negative weighted cosine
\* counts as 0.
C28_SemanticScoreIsBestWeightedCosineOrZero ==
    MultiVectorRan =>
        \A idx \in 0..(Len(engine.documents) - 1) :
            IF FoundWeightedCosines(idx) = {}
            THEN ~DictHas(found.trace.semantic, idx)
            ELSE /\ DictHas(found.trace.semantic, idx)
                 /\ DictValue(found.trace.semantic, idx, 0) =
                        Max(0, SetMax(FoundWeightedCosines(idx)))

\* a multi-vector search with two variants of a store larger than the cut, in
\* which one ordinal owes its score to the answer index and another, with
\* negative cosines only, has score 0
C28_Witness ==
    /\ MultiVectorRan
    /\ found.use_synonyms
    /\ Len(ExpandQuery(found.query)) = 2
    /\ Len(engine.documents) > 3 * found.top_k
    /\ \E idx \in DictKeys(found.trace.semantic) :
          /\ DictValue(found.trace.semantic, idx, 0) > 0
          /\ \A v \in DOMAIN ExpandQuery(found.query) :
                /\ DictValue(found.trace.semantic, idx, 0) >
                       Cos(ExpandQuery(found.query)[v], engine.question_index[1][idx + 1])
                /\ DictValue(found.trace.semantic, idx, 0) >
                       (19 * Cos(ExpandQuery(found.query)[v],
                                 engine.combined_index[1][idx + 1])) \div 20
    /\ \E idx \in DictKeys(found.trace.semantic) :
          /\ DictValue(found.trace.semantic, idx, 0) = 0
          /\ SetMax(FoundWeightedCosines(idx)) < 0

\* -------------------------------------------- claims about the frame of queries
ReadOnlyOps == SearchOps \cup {"get_document_count"}

\* C29: search, search_questions_only, search_answers_only and
\* get_document_count are read-only: whatever their arguments and outcome they
\* leave the document list, the three vector indexes, both lexical indexes,
\* the initialized flag and the persisted snapshot unchanged.
C29_QueriesAreReadOnly ==
    [][lastCall'.op \in ReadOnlyOps =>
          /\ Memory(engine)' = Memory(engine)
          /\ engine'.initialized = engine.initialized
          /\ engine'.bm25 = engine.bm25
          /\ disk' = disk]_vars

\* a search that ended in an error on an initialized engine whose lexical
\* indexes cover a document the store no longer holds
C29_Witness ==
    /\ lastCall.op \in SearchOps
    /\ ~lastCall.ok
    /\ engine.initialized
    /\ engine.documents = <<>>
    /\ ~IsNone(engine.bm25_questions)
    /\ HasMultiIndex(disk)

\* ------------------------------------------------- the bot and a script
\* Two processes share the files under data/: the bot, whose engine is the
\* module-level singleton, and indexer.py or import_from_json.py, whose main
\* constructs an engine of its own, initializes it and hands it the posts in
\* one add_documents_batch.  A call of one process runs between two calls of
\* the other.  script holds the engine of the script process and, for both
\* processes, the documents their successful calls have added.
InitScript ==
    /\ engine = NewEngine
    /\ disk \in InitDisks
    /\ lastCall = NoCall
    /\ clean = TRUE
    /\ faults = 0
    /\ found = NoFound
    /\ loop = NoLoop
    /\ script = [pc |-> "none", engine |-> NewEngine, by |-> "none",
                 published |-> {}, imported |-> {}]

\* bot.py on_startup: await search_engine.initialize()
BotInitialize ==
    /\ ~engine.initialized
    /\ LET o == Initialize(engine, disk, "none")
       IN /\ engine' = o.engine
          /\ disk' = o.disk
          /\ lastCall' = Call("initialize", <<>>, o.ok, o.ret)
    /\ script' = [script EXCEPT !.by = "bot"]
    /\ UNCHANGED <<clean, faults, found, loop>>

\* handlers/admin.py publish_post: search_engine.add_document({...})
BotPublish ==
    \E doc \in PublishedDocs :
        /\ engine.initialized
        /\ StoreSize(engine) < MaxStore
        /\ LET o == AddDocument(engine, disk, doc, "none")
           IN /\ engine' = o.engine
              /\ disk' = o.disk
              /\ lastCall' = Call("add_document", <<doc>>, o.ok, o.ret)
              /\ script' = [script EXCEPT !.by = "bot",
                                          !.published = IF o.ok THEN @ \cup {StoredDoc(doc)}
                                                        ELSE @]
        /\ UNCHANGED <<clean, faults, found, loop>>

\* main of the script: search_engine = SearchEngine(); await search_engine.initialize()
ScriptInitialize ==
    /\ script.pc = "none"
    /\ LET o == Initialize(NewEngine, disk, "none")
       IN /\ disk' = o.disk
          /\ lastCall' = Call("initialize", <<>>, o.ok, o.ret)
          /\ script' = [script EXCEPT !.pc = "initialized", !.engine = o.engine,
                                      !.by = "script"]
    /\ UNCHANGED <<engine, clean, faults, found, loop>>

\* main of the script: search_engine.add_documents_batch(qa_posts), after
\* which the process ends; qa_posts is not empty (main returns before that)
ScriptImport ==
    \E qa_posts \in SeqsUpTo({DocB, DocC}, MaxBatch) \ {<<>>} :
        /\ script.pc = "initialized"
        /\ StoreSize(script.engine) + Len(qa_posts) <= MaxStore
        /\ LET o == AddDocumentsBatch(script.engine, disk, qa_posts, "none")
           IN /\ disk' = o.disk
              /\ lastCall' = Call("add_documents_batch", qa_posts, o.ok, o.ret)
              /\ script' = [script EXCEPT
                               !.pc = "none", !.engine = NewEngine, !.by = "script",
                               !.imported = IF o.ok
                                            THEN @ \cup {StoredDoc(qa_posts[i]) :
                                                            i \in DOMAIN qa_posts}
                                            ELSE @]
        /\ UNCHANGED <<engine, clean, faults, found, loop>>

NextScript ==
    \/ BotInitialize
    \/ BotPublish
    \/ ScriptInitialize
    \/ ScriptImport

SpecScript == InitScript /\ [][NextScript]_vars

\* the document is in the document file of the snapshot
Persisted(doc) ==
    /\ ~IsNone(disk.documents)
    /\ \E i \in DOMAIN disk.documents[1] : JsonLoad(disk.documents[1])[i] = doc

\* the last call was a successful add of this process
AddedBy(process) ==
    script.by = process /\ lastCall.op \in IngestOps /\ lastCall.ok

\* C30 (as claimed): when the bot and the indexer or import script each hold
\* their own engine over the same snapshot files, every document one of them
\* has added successfully is still in the persisted snapshot after any later
\* successful add of the other: no update is lost.
C30_NoLostUpdate ==
    /\ AddedBy("bot") => \A doc \in script.imported : Persisted(doc)
    /\ AddedBy("script") => \A doc \in script.published : Persisted(doc)

====
